---- MODULE Spec2Model ----
(***************************************************************************)
(* State-machine model of the settlement contracts:                        *)
(*   contracts/src/AgentAllowance.sol    (allowance ledger)                *)
(*   contracts/src/InvoiceSettlement.sol (invoice escrow)                  *)
(*   contracts/src/RecurringPayments.sol (subscription billing)            *)
(* Every external function is one action.  A call that reverts leaves the  *)
(* contract storage as it was (EVM transaction semantics): it is a step    *)
(* that changes nothing.  A call is computed by an operator of the same    *)
(* name as the function, which yields the outcome and the storage it       *)
(* leaves; the action commits that storage when the call succeeded.        *)
(***************************************************************************)
EXTENDS Integers, Sequences, FiniteSets, TLC

(***************************************************************************)
(* Bounds of the model.                                                    *)
(***************************************************************************)
MaxAmount     == 2      \* limits, thresholds and spend amounts are 0 .. MaxAmount
MaxTicks      == 1      \* number of block-time advances
MaxSigners    == 2      \* longest signer array given to configureMultiSig
MaxApprovals  == 1      \* distinct transaction hashes approved per agent
MaxInvoices   == 1      \* invoice ids 0 .. MaxInvoices-1 can be created
MaxUnits      == 3      \* invoice and payment amounts are 0 .. MaxUnits units
AmountStep    == 50     \* tokens in one unit
MaxValidators == 3      \* longest validator array given to raiseDispute
MaxCycles     == 3      \* number of block-time advances under SpecBiller

(***************************************************************************)
(* Principals.  Zero is address(0).                                        *)
(***************************************************************************)
Zero     == "0x0"
Deployer == "D"
Principals == {"O", "A", "X"}
Addresses  == Principals \cup {Zero, Deployer}

DAY == 86400

Periods == {"DAILY", "WEEKLY", "MONTHLY"}

StartTime == 1000 * DAY
TickSteps == {DAY, 7 * DAY, 30 * DAY}

AllowanceIds == {0}      \* the allowances that can be created
Amounts      == 0 .. MaxAmount

VARIABLES
    now,                \* block.timestamp
    ticks,              \* how often the time was advanced
    allowanceIdCounter,
    allowances,         \* allowanceId -> Allowance
    agentAllowances,    \* agent -> sequence of allowance ids
    multiSigConfigs,    \* agent -> MultiSigConfig
    aPaused,            \* Pausable._paused of AgentAllowance
    transferred         \* allowanceId -> tokens moved by spend since lastReset

aVars == <<now, ticks, allowanceIdCounter, allowances, agentAllowances,
           multiSigConfigs, aPaused, transferred>>

VARIABLES
    invoiceIdCounter,
    invoices,           \* invoiceId -> Invoice
    disputes,           \* invoiceId -> Dispute
    escrowBalances,     \* invoiceId -> amount held for the invoice
    collectedFees,
    iPaused,            \* Pausable._paused of InvoiceSettlement
    balances,           \* the token's ledger: holder -> tokens
    voters              \* invoiceId -> the callers counted by resolveDispute

iVars == <<invoiceIdCounter, invoices, disputes, escrowBalances, collectedFees,
           iPaused, balances, voters>>

VARIABLES
    subscriptionIdCounter,
    subscriptions,      \* subId -> Subscription
    rPaused             \* Pausable._paused of RecurringPayments

rVars == <<subscriptionIdCounter, subscriptions, rPaused>>

vars == <<aVars, iVars, rVars>>

(***************************************************************************)
(* Storage defaults (an unset mapping slot reads as zero).                 *)
(***************************************************************************)
ZeroAllowance ==
    [owner |-> Zero, agent |-> Zero, limit |-> 0, period |-> "DAILY",
     spent |-> 0, lastReset |-> 0, rollover |-> FALSE, active |-> FALSE]

ZeroMultiSig == [threshold |-> 0, signers |-> <<>>, approvals |-> <<>>]

\* approvals[txHash] of a MultiSigConfig; the mapping holds the non-zero slots.
ApprovalsOf(config, txHash) ==
    IF txHash \in DOMAIN config.approvals THEN config.approvals[txHash] ELSE 0

\* keccak256(abi.encodePacked(allowanceId, recipient, amount, block.timestamp)),
\* taken as collision free.
TxHash(allowanceId, recipient, amount, t) == <<allowanceId, recipient, amount, t>>

\* The contract storage as one value, so that a call can be computed on it.
AStore ==
    [allowanceIdCounter |-> allowanceIdCounter,
     allowances         |-> allowances,
     agentAllowances    |-> agentAllowances,
     multiSigConfigs    |-> multiSigConfigs,
     paused             |-> aPaused,
     transferred        |-> transferred]

\* Outcome of a call: err = "" on success; st is the storage the call leaves
\* if it is committed; tok is what the token returned (if it was called) and
\* nested what became of a call made from the token's callback.
Ok(st, tok, nested) == [err |-> "", st |-> st, tok |-> tok, nested |-> nested]
Revert(st, e)       == [err |-> e, st |-> st, tok |-> "none", nested |-> "none"]

\* The storage after the transaction: a reverted call leaves that of before.
CommitPartial(pre, res) == res.st
Commit(pre, res) == IF res.err = "" THEN res.st ELSE pre

(***************************************************************************)
(* AgentAllowance: internal functions.                                     *)
(***************************************************************************)
PeriodDuration(period) ==
    CASE period = "DAILY"   -> 1 * DAY
      [] period = "WEEKLY"  -> 7 * DAY
      [] period = "MONTHLY" -> 30 * DAY

shouldReset(st, allowanceId, t) ==
    LET allowance == st.allowances[allowanceId]
        elapsed   == t - allowance.lastReset
    IN  elapsed >= PeriodDuration(allowance.period)

resetPeriodIfNeededNever(st, allowanceId, t) == st
resetPeriodIfNeeded(st, allowanceId, t) ==
    IF ~shouldReset(st, allowanceId, t) THEN st
    ELSE [st EXCEPT !.allowances[allowanceId].spent = 0,
                    !.allowances[allowanceId].lastReset = t,
                    !.transferred[allowanceId] = 0]

\* ReentrancyGuard.nonReentrant: passes unless a guarded call is executing.
nonReentrantOff(entered) == TRUE
nonReentrant(entered) == ~entered

\* amount > available, with available = limit - spent
insufficientIgnoringSpent(amount, limit, spent) == amount > limit
insufficient(amount, limit, spent) == amount > limit - spent

\* approvals < multiSig.signers.length
multiSigUnmetAnyApproval(approvals, signers) == approvals = 0 /\ Len(signers) > 0
multiSigUnmet(approvals, signers) == approvals < Len(signers)

\* !allowance.active
notActiveNever(allowance) == FALSE
notActive(allowance) == ~allowance.active

\* require(openworkToken.transferFrom(...), "Transfer failed")
requireTransferUnchecked(result) == result # "revert"
requireTransfer(result) == result = "true"

(***************************************************************************)
(* Behaviour of the token during one transferFrom: result is what it       *)
(* answers ("true", "false", or it reverts); cb is a call back into the    *)
(* contract made before it answers (NoCall: none), and caught says whether *)
(* the token catches the failure of that call.                             *)
(***************************************************************************)
NoCall == [kind |-> "none"]
TokenResults == {"true", "false", "revert"}
PlainToken == [result : TokenResults, cb : {NoCall}]

\* spend.  A revert carries the storage as the call had changed it up to
\* there, which Commit then discards.
RECURSIVE spend(_, _, _, _, _, _, _, _)
spend(st, entered, sender, allowanceId, recipient, amount, t, tok) ==
    LET allowance == st.allowances[allowanceId]
        st1       == resetPeriodIfNeeded(st, allowanceId, t)
        a1        == st1.allowances[allowanceId]
        multiSig  == st1.multiSigConfigs[a1.agent]
        txHash    == TxHash(allowanceId, recipient, amount, t)
        st2       == [st1 EXCEPT !.allowances[allowanceId].spent = @ + amount]
        cb        == tok.cb
        called    == cb.kind = "spend"
        inner     == spend(st2, TRUE, cb.sender, cb.allowanceId, cb.recipient,
                           cb.amount, t, cb.tok)
        st3       == IF called /\ inner.err = "" THEN inner.st ELSE st2
        nested    == IF ~called THEN "none"
                     ELSE IF inner.err = "" THEN "executed" ELSE "rejected"
        st4       == [st3 EXCEPT !.transferred[allowanceId] = @ + amount]
    IN  IF ~nonReentrant(entered) THEN Revert(st, "ReentrancyGuard")
        ELSE IF st.paused THEN Revert(st, "Paused")
        ELSE IF notActive(allowance) THEN Revert(st, "AllowanceNotActive")
        ELSE IF sender # allowance.agent THEN Revert(st, "UnauthorizedSpender")
        ELSE IF recipient = Zero THEN Revert(st, "Invalid recipient")
        ELSE IF a1.limit < a1.spent THEN Revert(st1, "Panic")
        ELSE IF insufficient(amount, a1.limit, a1.spent)
             THEN Revert(st1, "InsufficientAllowance")
        ELSE IF /\ amount >= multiSig.threshold
                /\ multiSig.threshold > 0
                /\ multiSigUnmet(ApprovalsOf(multiSig, txHash), multiSig.signers)
             THEN Revert(st1, "MultiSigRequired")
        ELSE IF called /\ inner.err # "" /\ ~cb.caught
             THEN [Revert(st2, inner.err) EXCEPT !.tok = "revert", !.nested = nested]
        ELSE IF ~requireTransfer(tok.result)
             THEN [Revert(st3, "Transfer failed") EXCEPT !.tok = tok.result,
                                                         !.nested = nested]
        ELSE Ok(st4, tok.result, nested)

\* getRemainingAllowance (view); "Panic" stands for the arithmetic revert.
getRemainingAllowance(st, allowanceId, t) ==
    LET allowance == st.allowances[allowanceId]
    IN  IF ~allowance.active THEN 0
        ELSE IF shouldReset(st, allowanceId, t) THEN allowance.limit
        ELSE IF allowance.limit < allowance.spent THEN "Panic"
        ELSE allowance.limit - allowance.spent

(***************************************************************************)
(* AgentAllowance: external functions as calls on the storage.             *)
(***************************************************************************)
createAllowance(st, sender, agent, limit, period, rollover, t) ==
    LET allowanceId == st.allowanceIdCounter
    IN  IF st.paused THEN Revert(st, "Paused")
        ELSE IF agent = Zero THEN Revert(st, "Invalid agent")
        ELSE IF ~(limit > 0) THEN Revert(st, "Limit must be > 0")
        ELSE Ok([st EXCEPT
                    !.allowanceIdCounter = @ + 1,
                    !.allowances[allowanceId] =
                        [owner |-> sender, agent |-> agent, limit |-> limit,
                         period |-> period, spent |-> 0, lastReset |-> t,
                         rollover |-> rollover, active |-> TRUE],
                    !.agentAllowances[agent] = Append(@, allowanceId)],
                "none", "none")

updateAllowance(st, sender, allowanceId, newLimit, newPeriod) ==
    LET allowance == st.allowances[allowanceId]
    IN  IF sender # allowance.owner THEN Revert(st, "Not owner")
        ELSE IF ~(newLimit > 0) THEN Revert(st, "Limit must be > 0")
        ELSE Ok([st EXCEPT !.allowances[allowanceId].limit = newLimit,
                           !.allowances[allowanceId].period = newPeriod],
                "none", "none")

revokeAllowanceByAnyone(st, sender, allowanceId) ==
    Ok([st EXCEPT !.allowances[allowanceId].active = FALSE], "none", "none")
revokeAllowance(st, sender, allowanceId) ==
    LET allowance == st.allowances[allowanceId]
    IN  IF sender # allowance.owner THEN Revert(st, "Not owner")
        ELSE Ok([st EXCEPT !.allowances[allowanceId].active = FALSE],
                "none", "none")

configureMultiSig(st, sender, agent, threshold, signers) ==
    LET ids     == st.agentAllowances[agent]
        isOwner == \E i \in 1 .. Len(ids) : st.allowances[ids[i]].owner = sender
    IN  IF ~isOwner THEN Revert(st, "Not owner of any allowance for this agent")
        ELSE Ok([st EXCEPT !.multiSigConfigs[agent].threshold = threshold,
                           !.multiSigConfigs[agent].signers = signers],
                "none", "none")

\* config.approvals[txHash] > 0
alreadyApprovedNever(count) == FALSE
alreadyApproved(count) == count > 0

approveTransaction(st, sender, txHash, agent) ==
    LET config   == st.multiSigConfigs[agent]
        isSigner == \E i \in 1 .. Len(config.signers) : config.signers[i] = sender
        bumped   == [h \in DOMAIN config.approvals \cup {txHash} |->
                        IF h = txHash THEN ApprovalsOf(config, txHash) + 1
                        ELSE config.approvals[h]]
    IN  IF ~isSigner THEN Revert(st, "InvalidSigner")
        ELSE IF alreadyApproved(ApprovalsOf(config, txHash))
             THEN Revert(st, "AlreadyApproved")
        ELSE Ok([st EXCEPT !.multiSigConfigs[agent].approvals = bumped],
                "none", "none")

pause(st, sender) ==
    IF sender # Deployer THEN Revert(st, "Ownable: caller is not the owner")
    ELSE IF st.paused THEN Revert(st, "Pausable: paused")
    ELSE Ok([st EXCEPT !.paused = TRUE], "none", "none")

unpause(st, sender) ==
    IF sender # Deployer THEN Revert(st, "Ownable: caller is not the owner")
    ELSE IF ~st.paused THEN Revert(st, "Pausable: not paused")
    ELSE Ok([st EXCEPT !.paused = FALSE], "none", "none")

(***************************************************************************)
(* Inputs.                                                                 *)
(***************************************************************************)
Creators     == {"O"}
Owners       == {"O", "X"}
Spenders     == {"A", "X"}
AgentInputs  == {"A", Zero}
Recipients   == {"X", Zero}
Admins       == {Deployer, "X"}
\* The signer arrays O, X, O, ... of every length up to MaxSigners.
SignerArrays ==
    {[i \in 1 .. n |-> IF i % 2 = 1 THEN "O" ELSE "X"] : n \in 0 .. MaxSigners}

CallbackToken ==
    [result : {"true"},
     cb : [kind : {"spend"}, sender : {"A"}, allowanceId : AllowanceIds,
           recipient : {"X"}, amount : Amounts \ {0},
           tok : [result : {"true"}, cb : {NoCall}], caught : BOOLEAN]]
TokenBehaviours == PlainToken \cup CallbackToken

(***************************************************************************)
(* AgentAllowance: one action per external function.                       *)
(***************************************************************************)
\* The transaction of a call ends: its storage is committed.
AApply(res) ==
    LET post == Commit(AStore, res)
    IN  /\ allowanceIdCounter' = post.allowanceIdCounter
        /\ allowances' = post.allowances
        /\ agentAllowances' = post.agentAllowances
        /\ multiSigConfigs' = post.multiSigConfigs
        /\ aPaused' = post.paused
        /\ transferred' = post.transferred
        /\ UNCHANGED <<now, ticks>>
        /\ UNCHANGED <<iVars, rVars>>

\* A call that reverts is a step that changes nothing, so the steps of the
\* model are the calls that succeed (err = "").
CreateAllowance ==
    \E sender \in Creators, agent \in AgentInputs, limit \in Amounts,
       period \in Periods, rollover \in BOOLEAN :
        LET res == createAllowance(AStore, sender, agent, limit, period, rollover, now)
        IN  /\ allowanceIdCounter \in AllowanceIds
            /\ res.err = ""
            /\ AApply(res)

Spend ==
    \E sender \in Spenders, allowanceId \in AllowanceIds, recipient \in Recipients,
       amount \in Amounts, tok \in TokenBehaviours :
        LET res == spend(AStore, FALSE, sender, allowanceId, recipient, amount, now, tok)
        IN  /\ res.err = ""
            /\ AApply(res)

UpdateAllowance ==
    \E sender \in Owners, allowanceId \in AllowanceIds, newLimit \in Amounts,
       newPeriod \in Periods :
        LET res == updateAllowance(AStore, sender, allowanceId, newLimit, newPeriod)
        IN  /\ res.err = ""
            /\ AApply(res)

RevokeAllowance ==
    \E sender \in Owners, allowanceId \in AllowanceIds :
        LET res == revokeAllowance(AStore, sender, allowanceId)
        IN  /\ res.err = ""
            /\ AApply(res)

ConfigureMultiSig ==
    \E sender \in Owners, threshold \in Amounts, signers \in SignerArrays :
        LET res == configureMultiSig(AStore, sender, "A", threshold, signers)
        IN  /\ res.err = ""
            /\ AApply(res)

\* The hashes approved are those of spends to X at the current time.
ApproveTransaction ==
    \E sender \in Owners, allowanceId \in AllowanceIds, amount \in Amounts \ {0} :
        LET txHash == TxHash(allowanceId, "X", amount, now)
            res    == approveTransaction(AStore, sender, txHash, "A")
        IN  /\ \/ txHash \in DOMAIN multiSigConfigs["A"].approvals
               \/ Cardinality(DOMAIN multiSigConfigs["A"].approvals) < MaxApprovals
            /\ res.err = ""
            /\ AApply(res)

APause ==
    \E sender \in Admins :
        LET res == pause(AStore, sender)
        IN  /\ res.err = ""
            /\ AApply(res)

AUnpause ==
    \E sender \in Admins :
        LET res == unpause(AStore, sender)
        IN  /\ res.err = ""
            /\ AApply(res)

AdvanceTime ==
    \E d \in TickSteps :
        /\ ticks < MaxTicks
        /\ now' = now + d
        /\ ticks' = ticks + 1
        /\ UNCHANGED <<allowanceIdCounter, allowances, agentAllowances,
                       multiSigConfigs, aPaused, transferred>>
        /\ UNCHANGED <<iVars, rVars>>

AInit ==
    /\ now = StartTime
    /\ ticks = 0
    /\ allowanceIdCounter = 0
    /\ allowances = [i \in AllowanceIds |-> ZeroAllowance]
    /\ agentAllowances = [a \in Addresses |-> <<>>]
    /\ multiSigConfigs = [a \in Addresses |-> ZeroMultiSig]
    /\ aPaused = FALSE
    /\ transferred = [i \in AllowanceIds |-> 0]

ANext ==
    \/ CreateAllowance
    \/ Spend
    \/ UpdateAllowance
    \/ RevokeAllowance
    \/ ConfigureMultiSig
    \/ ApproveTransaction
    \/ APause
    \/ AUnpause
    \/ AdvanceTime

(***************************************************************************)
(* InvoiceSettlement.  The fields createdAt, dueDate and description of an *)
(* invoice and invoiceId, reason and createdAt of a dispute are written    *)
(* once and read by no function; they are left out, as are the lists       *)
(* issuedInvoices and receivedInvoices, which only the getters read.       *)
(***************************************************************************)
PLATFORM_FEE_BPS == 500
BPS_DENOMINATOR  == 10000

Escrow == "ESCROW"      \* address(this) of InvoiceSettlement
InvoiceStates == {"DRAFT", "SENT", "ESCROWED", "PAID", "DISPUTED", "CANCELLED"}

InvoiceIds     == 0 .. (MaxInvoices - 1)
InvoiceAmounts == {k * AmountStep : k \in 0 .. MaxUnits}
Holders        == {"I", "R", Deployer, Escrow}

ZeroInvoice ==
    [issuer |-> Zero, recipient |-> Zero, amount |-> 0, paidAmount |-> 0,
     state |-> "DRAFT", partialPayment |-> FALSE]

ZeroDispute ==
    [initiator |-> Zero, validators |-> <<>>, validatorApprovals |-> 0,
     resolved |-> FALSE]

IStore ==
    [invoiceIdCounter |-> invoiceIdCounter,
     invoices         |-> invoices,
     disputes         |-> disputes,
     escrowBalances   |-> escrowBalances,
     collectedFees    |-> collectedFees,
     paused           |-> iPaused,
     balances         |-> balances,
     voters           |-> voters]

\* The token moves amount from one holder to another and answers result; it
\* reverts when the sender holds less than amount.
tokenTransfer(st, from, to, amount, result) ==
    IF result = "revert" \/ st.balances[from] < amount
    THEN Revert(st, "ERC20: transfer failed")
    ELSE IF result = "false" THEN Ok(st, "false", "none")
    ELSE Ok([st EXCEPT !.balances =
                 [h \in DOMAIN st.balances |->
                     st.balances[h] - (IF h = from THEN amount ELSE 0)
                                    + (IF h = to THEN amount ELSE 0)]],
            "true", "none")

\* (escrow * PLATFORM_FEE_BPS) / BPS_DENOMINATOR
platformFeeTenth(escrow) == (escrow * PLATFORM_FEE_BPS) \div (BPS_DENOMINATOR \div 10)
platformFee(escrow) == (escrow * PLATFORM_FEE_BPS) \div BPS_DENOMINATOR

\* _settle
settleKeepingState(st, invoiceId, result) ==
    LET invoice      == st.invoices[invoiceId]
        escrow       == st.escrowBalances[invoiceId]
        payoutAmount == escrow - platformFee(escrow)
        st1 == [st EXCEPT !.escrowBalances[invoiceId] = 0,
                          !.collectedFees = @ + platformFee(escrow)]
        sent == tokenTransfer(st1, Escrow, invoice.issuer, payoutAmount, result)
    IN  IF sent.err # "" THEN Revert(st1, sent.err)
        ELSE IF ~requireTransfer(sent.tok) THEN Revert(st1, "Payout failed")
        ELSE Ok(sent.st, "true", "none")
settle(st, invoiceId, result) ==
    LET invoice      == st.invoices[invoiceId]
        escrow       == st.escrowBalances[invoiceId]
        payoutAmount == escrow - platformFee(escrow)
        st1 == [st EXCEPT !.escrowBalances[invoiceId] = 0,
                          !.invoices[invoiceId].state = "PAID",
                          !.collectedFees = @ + platformFee(escrow)]
        sent == tokenTransfer(st1, Escrow, invoice.issuer, payoutAmount, result)
    IN  IF sent.err # "" THEN Revert(st1, sent.err)
        ELSE IF ~requireTransfer(sent.tok) THEN Revert(st1, "Payout failed")
        ELSE Ok(sent.st, "true", "none")

createInvoice(st, sender, recipient, amount, partialPayment) ==
    LET invoiceId == st.invoiceIdCounter
    IN  IF st.paused THEN Revert(st, "Paused")
        ELSE IF recipient = Zero THEN Revert(st, "Invalid recipient")
        ELSE IF recipient = sender THEN Revert(st, "Cannot invoice self")
        ELSE IF ~(amount > 0) THEN Revert(st, "Amount must be > 0")
        ELSE Ok([st EXCEPT
                    !.invoiceIdCounter = @ + 1,
                    !.invoices[invoiceId] =
                        [issuer |-> sender, recipient |-> recipient,
                         amount |-> amount, paidAmount |-> 0, state |-> "DRAFT",
                         partialPayment |-> partialPayment]],
                "none", "none")

sendInvoice(st, sender, invoiceId) ==
    LET invoice == st.invoices[invoiceId]
    IN  IF sender # invoice.issuer THEN Revert(st, "Unauthorized")
        ELSE IF invoice.state # "DRAFT" THEN Revert(st, "InvalidState")
        ELSE Ok([st EXCEPT !.invoices[invoiceId].state = "SENT"], "none", "none")

\* amount < remaining && !invoice.partialPayment
partialRefusedNever(amount, remaining, partialPayment) == FALSE
partialRefused(amount, remaining, partialPayment) ==
    amount < remaining /\ ~partialPayment

\* invoice.paidAmount += amount
paidAfterOverwrite(paidAmount, amount) == amount
paidAfter(paidAmount, amount) == paidAmount + amount

\* amount > remaining
overpaidNever(amount, remaining) == FALSE
overpaid(amount, remaining) == amount > remaining

\* payInvoice; resultIn and resultOut are the token's answers to the transfer
\* into escrow and to the payout of a settlement.
payInvoice(st, entered, sender, invoiceId, amount, resultIn, resultOut) ==
    LET invoice   == st.invoices[invoiceId]
        remaining == invoice.amount - invoice.paidAmount
        paidIn    == tokenTransfer(st, sender, Escrow, amount, resultIn)
        st1 == [paidIn.st EXCEPT
                   !.escrowBalances[invoiceId] = @ + amount,
                   !.invoices[invoiceId].paidAmount = paidAfter(@, amount)]
        st2 == IF invoice.state = "SENT"
               THEN [st1 EXCEPT !.invoices[invoiceId].state = "ESCROWED"]
               ELSE st1
    IN  IF ~nonReentrant(entered) THEN Revert(st, "ReentrancyGuard")
        ELSE IF st.paused THEN Revert(st, "Paused")
        ELSE IF sender # invoice.recipient THEN Revert(st, "Unauthorized")
        ELSE IF invoice.state \notin {"SENT", "ESCROWED"} THEN Revert(st, "InvalidState")
        ELSE IF ~(amount > 0) THEN Revert(st, "Amount must be > 0")
        ELSE IF remaining < 0 THEN Revert(st, "Panic")
        ELSE IF partialRefused(amount, remaining, invoice.partialPayment)
             THEN Revert(st, "PartialPaymentsNotAllowed")
        ELSE IF overpaid(amount, remaining) THEN Revert(st, "InvoiceOverpaid")
        ELSE IF paidIn.err # "" THEN Revert(st, paidIn.err)
        ELSE IF ~requireTransfer(paidIn.tok) THEN Revert(st, "Transfer failed")
        ELSE IF st2.invoices[invoiceId].paidAmount >= st2.invoices[invoiceId].amount
             THEN settle(st2, invoiceId, resultOut)
        ELSE Ok(st2, "true", "none")

\* invoice.state is DRAFT or SENT
cancellableWithEscrow(state) == state \in {"DRAFT", "SENT", "ESCROWED"}
cancellable(state) == state \in {"DRAFT", "SENT"}

\* msg.sender != invoice.issuer
notIssuerNever(sender, issuer) == FALSE
notIssuer(sender, issuer) == sender # issuer

cancelInvoice(st, sender, invoiceId) ==
    LET invoice == st.invoices[invoiceId]
    IN  IF notIssuer(sender, invoice.issuer) THEN Revert(st, "Unauthorized")
        ELSE IF ~cancellable(invoice.state) THEN Revert(st, "InvalidState")
        ELSE Ok([st EXCEPT !.invoices[invoiceId].state = "CANCELLED"],
                "none", "none")

\* invoice.state is ESCROWED
disputableOrPaid(state) == state \in {"ESCROWED", "PAID"}
disputableOrSent(state) == state \in {"SENT", "ESCROWED"}
disputable(state) == state = "ESCROWED"

raiseDispute(st, sender, invoiceId, validators) ==
    LET invoice == st.invoices[invoiceId]
    IN  IF sender # invoice.issuer /\ sender # invoice.recipient
        THEN Revert(st, "Not party to invoice")
        ELSE IF ~disputable(invoice.state) THEN Revert(st, "InvalidState")
        ELSE IF ~(Len(validators) > 0) THEN Revert(st, "Need validators")
        ELSE Ok([st EXCEPT
                    !.invoices[invoiceId].state = "DISPUTED",
                    !.disputes[invoiceId] =
                        [initiator |-> sender, validators |-> validators,
                         validatorApprovals |-> 0, resolved |-> FALSE],
                    !.voters[invoiceId] = {}],
                "none", "none")

\* require(!dispute.resolved, "Already resolved")
alreadyResolvedNever(resolved) == FALSE
alreadyResolved(resolved) == resolved

\* (dispute.validators.length / 2) + 1
requiredApprovalsOne(n) == 1
requiredApprovals(n) == (n \div 2) + 1

\* the receiver of a refund: invoice.recipient
refundReceiverIssuer(invoice) == invoice.issuer
refundReceiver(invoice) == invoice.recipient

\* resolveDispute; voters records who was counted (the contract keeps only
\* the count validatorApprovals).
resolveDispute(st, sender, invoiceId, refund, result) ==
    LET dispute     == st.disputes[invoiceId]
        invoice     == st.invoices[invoiceId]
        isValidator == \E i \in 1 .. Len(dispute.validators) :
                           dispute.validators[i] = sender
        st1 == [st EXCEPT !.disputes[invoiceId].validatorApprovals = @ + 1,
                          !.voters[invoiceId] = @ \cup {sender}]
        st2 == [st1 EXCEPT !.disputes[invoiceId].resolved = TRUE]
        escrow == st2.escrowBalances[invoiceId]
        st3 == [st2 EXCEPT !.escrowBalances[invoiceId] = 0]
        back == tokenTransfer(st3, Escrow, refundReceiver(invoice), escrow, result)
    IN  IF alreadyResolved(dispute.resolved) THEN Revert(st, "Already resolved")
        ELSE IF ~isValidator THEN Revert(st, "Not validator")
        ELSE IF st1.disputes[invoiceId].validatorApprovals
                    < requiredApprovals(Len(dispute.validators))
             THEN Ok(st1, "none", "none")
        ELSE IF refund
             THEN IF back.err # "" THEN Revert(st3, back.err)
                  ELSE IF ~requireTransfer(back.tok) THEN Revert(st3, "Refund failed")
                  ELSE Ok([back.st EXCEPT !.invoices[invoiceId].state = "CANCELLED"],
                          "true", "none")
        ELSE settle(st2, invoiceId, result)

withdrawFeesUncleared(st, sender, to, result) ==
    LET amount == st.collectedFees
        out    == tokenTransfer(st, Escrow, to, amount, result)
    IN  IF sender # Deployer THEN Revert(st, "Ownable: caller is not the owner")
        ELSE IF to = Zero THEN Revert(st, "Invalid address")
        ELSE IF out.err # "" THEN Revert(st, out.err)
        ELSE IF ~requireTransfer(out.tok) THEN Revert(st, "Withdrawal failed")
        ELSE Ok(out.st, "true", "none")
withdrawFees(st, sender, to, result) ==
    LET amount == st.collectedFees
        st1    == [st EXCEPT !.collectedFees = 0]
        out    == tokenTransfer(st1, Escrow, to, amount, result)
    IN  IF sender # Deployer THEN Revert(st, "Ownable: caller is not the owner")
        ELSE IF to = Zero THEN Revert(st, "Invalid address")
        ELSE IF out.err # "" THEN Revert(st1, out.err)
        ELSE IF ~requireTransfer(out.tok) THEN Revert(st1, "Withdrawal failed")
        ELSE Ok(out.st, "true", "none")

(***************************************************************************)
(* InvoiceSettlement: inputs and actions.                                  *)
(***************************************************************************)
Issuers          == {"I"}
InvoiceParties   == {"I", "R"}
RecipientInputs  == {"R", "I", Zero}
ResolverInputs   == {"V", "W", "I", "R"}
FeeReceivers     == {Deployer, Zero}
\* The validator arrays V, W, R, V, ... of every length up to MaxValidators.
ValidatorArrays ==
    {[i \in 1 .. n |-> CASE i % 3 = 1 -> "V" [] i % 3 = 2 -> "W" [] OTHER -> "R"] :
        n \in 0 .. MaxValidators}

IApply(res) ==
    LET post == Commit(IStore, res)
    IN  /\ invoiceIdCounter' = post.invoiceIdCounter
        /\ invoices' = post.invoices
        /\ disputes' = post.disputes
        /\ escrowBalances' = post.escrowBalances
        /\ collectedFees' = post.collectedFees
        /\ iPaused' = post.paused
        /\ balances' = post.balances
        /\ voters' = post.voters
        /\ UNCHANGED <<aVars, rVars>>

CreateInvoice ==
    \E sender \in Issuers, recipient \in RecipientInputs, amount \in InvoiceAmounts,
       partialPayment \in BOOLEAN :
        LET res == createInvoice(IStore, sender, recipient, amount, partialPayment)
        IN  /\ invoiceIdCounter \in InvoiceIds
            /\ res.err = ""
            /\ IApply(res)

SendInvoice ==
    \E sender \in InvoiceParties, invoiceId \in InvoiceIds :
        LET res == sendInvoice(IStore, sender, invoiceId)
        IN  /\ res.err = ""
            /\ IApply(res)

PayInvoice ==
    \E sender \in InvoiceParties, invoiceId \in InvoiceIds, amount \in InvoiceAmounts,
       resultIn \in TokenResults, resultOut \in TokenResults :
        LET res == payInvoice(IStore, FALSE, sender, invoiceId, amount, resultIn, resultOut)
        IN  /\ res.err = ""
            /\ IApply(res)

CancelInvoice ==
    \E sender \in InvoiceParties, invoiceId \in InvoiceIds :
        LET res == cancelInvoice(IStore, sender, invoiceId)
        IN  /\ res.err = ""
            /\ IApply(res)

RaiseDispute ==
    \E sender \in InvoiceParties, invoiceId \in InvoiceIds,
       validators \in ValidatorArrays :
        LET res == raiseDispute(IStore, sender, invoiceId, validators)
        IN  /\ res.err = ""
            /\ IApply(res)

ResolveDispute ==
    \E sender \in ResolverInputs, invoiceId \in InvoiceIds, refund \in BOOLEAN,
       result \in TokenResults :
        LET res == resolveDispute(IStore, sender, invoiceId, refund, result)
        IN  /\ res.err = ""
            /\ IApply(res)

WithdrawFees ==
    \E sender \in Admins, to \in FeeReceivers, result \in TokenResults :
        LET res == withdrawFees(IStore, sender, to, result)
        IN  /\ res.err = ""
            /\ IApply(res)

IPause ==
    \E sender \in Admins :
        LET res == pause(IStore, sender)
        IN  /\ res.err = ""
            /\ IApply(res)

IUnpause ==
    \E sender \in Admins :
        LET res == unpause(IStore, sender)
        IN  /\ res.err = ""
            /\ IApply(res)

\* The recipient holds enough tokens to pay every invoice in full.
InitialFunds == MaxInvoices * MaxUnits * AmountStep

IInit ==
    /\ invoiceIdCounter = 0
    /\ invoices = [i \in InvoiceIds |-> ZeroInvoice]
    /\ disputes = [i \in InvoiceIds |-> ZeroDispute]
    /\ escrowBalances = [i \in InvoiceIds |-> 0]
    /\ collectedFees = 0
    /\ iPaused = FALSE
    /\ balances = [h \in Holders |-> IF h = "R" THEN InitialFunds ELSE 0]
    /\ voters = [i \in InvoiceIds |-> {}]

INext ==
    \/ CreateInvoice
    \/ SendInvoice
    \/ PayInvoice
    \/ CancelInvoice
    \/ RaiseDispute
    \/ ResolveDispute
    \/ WithdrawFees
    \/ IPause
    \/ IUnpause

(***************************************************************************)
(* RecurringPayments.  It calls AgentAllowance (allowances,                *)
(* getRemainingAllowance, spend), so a call is computed on the storage of  *)
(* both contracts.  The fields id and createdAt of a subscription and the  *)
(* lists subscriberSubs and providerSubs are read by no function other     *)
(* than getters; they are left out.                                        *)
(***************************************************************************)
MAX_FAILED_BILLINGS == 3

Recurring == "RP"       \* address(this) of RecurringPayments
SubStates == {"ACTIVE", "PAUSED", "CANCELLED", "EXPIRED"}
SubscriptionIds == {0}  \* the subscriptions that can be created

ZeroSubscription ==
    [subscriber |-> Zero, provider |-> Zero, amount |-> 0, interval |-> "DAILY",
     state |-> "ACTIVE", allowanceId |-> 0, nextBilling |-> 0, lastBilled |-> 0,
     failedBillings |-> 0, totalPaid |-> 0]

\* The storage of RecurringPayments and, in field allowance, that of the
\* AgentAllowance contract it is deployed with.
RStore ==
    [subscriptionIdCounter |-> subscriptionIdCounter,
     subscriptions         |-> subscriptions,
     paused                |-> rPaused,
     allowance             |-> AStore]

\* _getIntervalDuration
getIntervalDurationNone(interval) == 0
getIntervalDuration(interval) ==
    CASE interval = "DAILY"   -> 1 * DAY
      [] interval = "WEEKLY"  -> 7 * DAY
      [] interval = "MONTHLY" -> 30 * DAY

\* The reverts of AgentAllowance.spend that carry Error(string), which is what
\* "catch Error(string memory reason)" catches: the require messages of the
\* contract and of the OpenZeppelin modifiers.  Custom errors and arithmetic
\* panics are not caught and revert the caller.
caughtByTry(err) ==
    err \in {"ReentrancyGuard", "Paused", "Invalid recipient", "Transfer failed"}

\* allowance.limit - allowance.spent of getRemainingAllowance underflows
remainingUnderflows(st, allowanceId, t) ==
    LET allowance == st.allowances[allowanceId]
    IN  /\ allowance.active
        /\ ~shouldReset(st, allowanceId, t)
        /\ allowance.limit < allowance.spent

\* sub.failedBillings >= MAX_FAILED_BILLINGS
tooManyFailuresAfterMax(failedBillings) == failedBillings > MAX_FAILED_BILLINGS
tooManyFailures(failedBillings) == failedBillings >= MAX_FAILED_BILLINGS

\* The caller that AgentAllowance.spend sees when _attemptBilling calls it.
spendCaller(sub) == Recurring

\* sub.state = SubState.EXPIRED
stateAfterMaxFailuresCancelled == "CANCELLED"
stateAfterMaxFailures == "EXPIRED"

\* sub.failedBillings++ and the expiry that follows it
billingFailed(st, subId) ==
    LET st1 == [st EXCEPT !.subscriptions[subId].failedBillings = @ + 1]
    IN  IF tooManyFailures(st1.subscriptions[subId].failedBillings)
        THEN [st1 EXCEPT !.subscriptions[subId].state = stateAfterMaxFailures]
        ELSE st1

\* What the allowance contract answers to the calls of RecurringPayments when
\* they are made by caller on its storage st at time t: allowances(allowanceId) (agent,
\* active), getRemainingAllowance(allowanceId) (panics, remaining) and
\* spend(allowanceId, provider, amount) (paid); tok is the behaviour of the
\* token in the transfer of spend.
ledgerOf(st, caller, allowanceId, provider, amount, t, tok) ==
    [agent     |-> st.allowances[allowanceId].agent,
     active    |-> st.allowances[allowanceId].active,
     panics    |-> remainingUnderflows(st, allowanceId, t),
     remaining |-> getRemainingAllowance(st, allowanceId, t),
     paid      |-> spend(st, FALSE, caller, allowanceId, provider, amount, t, tok)]

\* sub.nextBilling after a successful billing at time t
nextBillingAfterPrevious(sub, t) == sub.nextBilling + getIntervalDuration(sub.interval)
nextBillingAfter(sub, t) == t + getIntervalDuration(sub.interval)

\* _attemptBilling, given the answers of the allowance contract.
attemptBillingWith(st, subId, t, ledger) ==
    LET sub    == st.subscriptions[subId]
        paid   == ledger.paid
        st1    == [st EXCEPT
                     !.allowance = paid.st,
                     !.subscriptions[subId].lastBilled = t,
                     !.subscriptions[subId].nextBilling = nextBillingAfter(sub, t),
                     !.subscriptions[subId].failedBillings = 0,
                     !.subscriptions[subId].totalPaid = @ + sub.amount]
    IN  IF sub.state # "ACTIVE" THEN Revert(st, "SubscriptionNotActive")
        ELSE IF t < sub.nextBilling THEN Ok(st, "none", "not due")
        ELSE IF tooManyFailures(sub.failedBillings) THEN Revert(st, "TooManyFailures")
        ELSE IF ledger.panics THEN Revert(st, "Panic")
        ELSE IF ledger.remaining < sub.amount
             THEN Ok(billingFailed(st, subId), "none", "failed")
        ELSE IF paid.err = "" THEN Ok(st1, paid.tok, "billed")
        ELSE IF caughtByTry(paid.err) THEN Ok(billingFailed(st, subId), paid.tok, "failed")
        ELSE Revert(st, paid.err)

\* _attemptBilling on the AgentAllowance contract of the deployment.
attemptBilling(st, subId, t, tok) ==
    LET sub == st.subscriptions[subId]
    IN  attemptBillingWith(st, subId, t,
            ledgerOf(st.allowance, spendCaller(sub), sub.allowanceId, sub.provider,
                     sub.amount, t, tok))

subscribeWith(st, entered, sender, provider, amount, interval, allowanceId, t, ledger) ==
    LET subId  == st.subscriptionIdCounter
        st1 == [st EXCEPT
                   !.subscriptionIdCounter = @ + 1,
                   !.subscriptions[subId] =
                       [subscriber |-> sender, provider |-> provider,
                        amount |-> amount, interval |-> interval,
                        state |-> "ACTIVE", allowanceId |-> allowanceId,
                        nextBilling |-> t + getIntervalDuration(interval),
                        lastBilled |-> 0, failedBillings |-> 0, totalPaid |-> 0]]
    IN  IF ~nonReentrant(entered) THEN Revert(st, "ReentrancyGuard")
        ELSE IF st.paused THEN Revert(st, "Paused")
        ELSE IF provider = Zero THEN Revert(st, "Invalid provider")
        ELSE IF provider = sender THEN Revert(st, "Cannot subscribe to self")
        ELSE IF ~(amount > 0) THEN Revert(st, "Amount must be > 0")
        ELSE IF ~ledger.active THEN Revert(st, "Allowance not active")
        ELSE IF ledger.agent # sender THEN Revert(st, "Not your allowance")
        ELSE attemptBillingWith(st1, subId, t, ledger)

subscribe(st, entered, sender, provider, amount, interval, allowanceId, t, tok) ==
    subscribeWith(st, entered, sender, provider, amount, interval, allowanceId, t,
                  ledgerOf(st.allowance, Recurring, allowanceId, provider, amount, t, tok))

processBillingWith(st, entered, subId, t, ledger) ==
    IF ~nonReentrant(entered) THEN Revert(st, "ReentrancyGuard")
    ELSE IF st.paused THEN Revert(st, "Paused")
    ELSE attemptBillingWith(st, subId, t, ledger)

processBilling(st, entered, subId, t, tok) ==
    IF ~nonReentrant(entered) THEN Revert(st, "ReentrancyGuard")
    ELSE IF st.paused THEN Revert(st, "Paused")
    ELSE attemptBilling(st, subId, t, tok)

pauseSubscription(st, sender, subId) ==
    LET sub == st.subscriptions[subId]
    IN  IF sender # sub.subscriber THEN Revert(st, "Unauthorized")
        ELSE IF sub.state # "ACTIVE" THEN Revert(st, "SubscriptionNotActive")
        ELSE Ok([st EXCEPT !.subscriptions[subId].state = "PAUSED"], "none", "none")

resumeSubscriptionOnSchedule(st, sender, subId, t) ==
    LET sub == st.subscriptions[subId]
    IN  IF sender # sub.subscriber THEN Revert(st, "Unauthorized")
        ELSE IF sub.state # "PAUSED" THEN Revert(st, "Not paused")
        ELSE Ok([st EXCEPT !.subscriptions[subId].state = "ACTIVE"], "none", "none")
resumeSubscription(st, sender, subId, t) ==
    LET sub == st.subscriptions[subId]
    IN  IF sender # sub.subscriber THEN Revert(st, "Unauthorized")
        ELSE IF sub.state # "PAUSED" THEN Revert(st, "Not paused")
        ELSE Ok([st EXCEPT
                    !.subscriptions[subId].state = "ACTIVE",
                    !.subscriptions[subId].nextBilling =
                        t + getIntervalDuration(sub.interval)],
                "none", "none")

\* The prorated refund that cancelSubscription computes at time t.
proratedRefundOfElapsed(sub, t) ==
    LET intervalDuration == getIntervalDuration(sub.interval)
        elapsed          == t - sub.lastBilled
    IN  IF sub.lastBilled > 0 /\ elapsed < intervalDuration
        THEN (sub.amount * elapsed) \div intervalDuration
        ELSE 0
proratedRefund(sub, t) ==
    LET intervalDuration == getIntervalDuration(sub.interval)
        elapsed          == t - sub.lastBilled
        unusedTime       == intervalDuration - elapsed
    IN  IF sub.lastBilled > 0 /\ elapsed < intervalDuration
        THEN (sub.amount * unusedTime) \div intervalDuration
        ELSE 0

\* cancelSubscription; result is the token's answer to the transfer of the
\* prorated refund, if one is made.
cancelSubscription(st, sender, subId, t, result) ==
    LET sub    == st.subscriptions[subId]
        refund == proratedRefund(sub, t)
        st1 == [st EXCEPT !.subscriptions[subId].state = "CANCELLED"]
    IN  IF sender # sub.subscriber THEN Revert(st, "Unauthorized")
        ELSE IF sub.state \notin {"ACTIVE", "PAUSED"} THEN Revert(st, "Invalid state")
        ELSE IF refund > 0 /\ ~requireTransfer(result) THEN Revert(st, "Refund failed")
        ELSE Ok(st1, IF refund > 0 THEN result ELSE "none", "none")

\* batchBilling: every this.processBilling is an external call made while the
\* guard of batchBilling is held; a call that reverts is skipped.
RECURSIVE batchFrom(_, _, _, _, _)
batchFrom(st, subIds, i, t, tok) ==
    IF i > Len(subIds) THEN st
    ELSE batchFrom(Commit(st, processBilling(st, TRUE, subIds[i], t, tok)),
                   subIds, i + 1, t, tok)

batchBilling(st, entered, subIds, t, tok) ==
    IF ~nonReentrant(entered) THEN Revert(st, "ReentrancyGuard")
    ELSE IF st.paused THEN Revert(st, "Paused")
    ELSE Ok(batchFrom(st, subIds, 1, t, tok), "none", "none")

(***************************************************************************)
(* RecurringPayments: inputs and actions.                                  *)
(***************************************************************************)
Subscribers    == {"A", "X"}
ProviderInputs == {"P", "A", Zero}
SubIdArrays    == {<<0, 0>>}

RApply(res) ==
    LET post == Commit(RStore, res)
    IN  /\ subscriptionIdCounter' = post.subscriptionIdCounter
        /\ subscriptions' = post.subscriptions
        /\ rPaused' = post.paused
        /\ allowanceIdCounter' = post.allowance.allowanceIdCounter
        /\ allowances' = post.allowance.allowances
        /\ agentAllowances' = post.allowance.agentAllowances
        /\ multiSigConfigs' = post.allowance.multiSigConfigs
        /\ aPaused' = post.allowance.paused
        /\ transferred' = post.allowance.transferred
        /\ UNCHANGED <<now, ticks>>
        /\ UNCHANGED iVars

Subscribe ==
    \E sender \in Subscribers, provider \in ProviderInputs, amount \in Amounts,
       interval \in Periods, allowanceId \in AllowanceIds, tok \in PlainToken :
        LET res == subscribe(RStore, FALSE, sender, provider, amount, interval,
                             allowanceId, now, tok)
        IN  /\ subscriptionIdCounter \in SubscriptionIds
            /\ res.err = ""
            /\ RApply(res)

ProcessBilling ==
    \E subId \in SubscriptionIds, tok \in PlainToken :
        LET res == processBilling(RStore, FALSE, subId, now, tok)
        IN  /\ res.err = ""
            /\ RApply(res)

PauseSubscription ==
    \E sender \in Subscribers, subId \in SubscriptionIds :
        LET res == pauseSubscription(RStore, sender, subId)
        IN  /\ res.err = ""
            /\ RApply(res)

ResumeSubscription ==
    \E sender \in Subscribers, subId \in SubscriptionIds :
        LET res == resumeSubscription(RStore, sender, subId, now)
        IN  /\ res.err = ""
            /\ RApply(res)

CancelSubscription ==
    \E sender \in Subscribers, subId \in SubscriptionIds, result \in TokenResults :
        LET res == cancelSubscription(RStore, sender, subId, now, result)
        IN  /\ res.err = ""
            /\ RApply(res)

BatchBilling ==
    \E subIds \in SubIdArrays, tok \in PlainToken :
        LET res == batchBilling(RStore, FALSE, subIds, now, tok)
        IN  /\ res.err = ""
            /\ RApply(res)

RPause ==
    \E sender \in Admins :
        LET res == pause(RStore, sender)
        IN  /\ res.err = ""
            /\ RApply(res)

RUnpause ==
    \E sender \in Admins :
        LET res == unpause(RStore, sender)
        IN  /\ res.err = ""
            /\ RApply(res)

RInit ==
    /\ subscriptionIdCounter = 0
    /\ subscriptions = [i \in SubscriptionIds |-> ZeroSubscription]
    /\ rPaused = FALSE

\* The calls of RecurringPayments together with those of the AgentAllowance
\* contract it bills through and the passing of time.
RNext ==
    \/ Subscribe
    \/ ProcessBilling
    \/ PauseSubscription
    \/ ResumeSubscription
    \/ CancelSubscription
    \/ BatchBilling
    \/ RPause
    \/ RUnpause
    \/ CreateAllowance
    \/ Spend
    \/ UpdateAllowance
    \/ RevokeAllowance
    \/ APause
    \/ AUnpause
    \/ AdvanceTime

(***************************************************************************)
(* RecurringPayments with the allowance contract as an input.  The         *)
(* constructor takes the address of the allowance contract as an argument  *)
(* (any non-zero address), so what that contract answers to allowances,    *)
(* getRemainingAllowance and spend is drawn from input sets here: it may   *)
(* accept the spend of RecurringPayments, which the AgentAllowance         *)
(* contract of this repository never does.                                 *)
(***************************************************************************)
BillAmounts  == {0, 1, 30}
BillerSteps  == {DAY \div 2, DAY}
SpendAnswers == {"", "Transfer failed", "UnauthorizedSpender"}

\* The answers of an allowance contract that leaves the storage st.
LedgerAnswers(st) ==
    {[agent |-> agent, active |-> active, panics |-> panics,
      remaining |-> remaining,
      paid |-> IF e = "" THEN Ok(st, "true", "none") ELSE Revert(st, e)] :
        agent \in Subscribers, active \in BOOLEAN, panics \in BOOLEAN,
        remaining \in BillAmounts, e \in SpendAnswers}

SubscribeAny ==
    \E sender \in {"A"}, provider \in {"P", Zero}, amount \in BillAmounts,
       interval \in Periods, allowanceId \in AllowanceIds,
       ledger \in LedgerAnswers(AStore) :
        LET res == subscribeWith(RStore, FALSE, sender, provider, amount, interval,
                                 allowanceId, now, ledger)
        IN  /\ subscriptionIdCounter \in SubscriptionIds
            /\ res.err = ""
            /\ RApply(res)

ProcessBillingAny ==
    \E subId \in SubscriptionIds, ledger \in LedgerAnswers(AStore) :
        LET res == processBillingWith(RStore, FALSE, subId, now, ledger)
        IN  /\ res.err = ""
            /\ RApply(res)

BillerTime ==
    \E d \in BillerSteps :
        /\ ticks < MaxCycles
        /\ now' = now + d
        /\ ticks' = ticks + 1
        /\ UNCHANGED <<allowanceIdCounter, allowances, agentAllowances,
                       multiSigConfigs, aPaused, transferred>>
        /\ UNCHANGED <<iVars, rVars>>

BNext ==
    \/ SubscribeAny
    \/ ProcessBillingAny
    \/ PauseSubscription
    \/ ResumeSubscription
    \/ CancelSubscription
    \/ BatchBilling
    \/ RPause
    \/ RUnpause
    \/ BillerTime

Init == AInit /\ IInit /\ RInit

\* AgentAllowance and InvoiceSettlement share no storage and make no call to
\* one another; RecurringPayments is taken together with the calls of the
\* AgentAllowance contract it bills through.
SpecAllowance == Init /\ [][ANext]_vars
SpecInvoice   == Init /\ [][INext]_vars
SpecRecurring == Init /\ [][RNext]_vars
SpecBiller    == Init /\ [][BNext]_vars

\* The three contracts side by side.  They share no storage, so each is run
\* while the storage of the other two is as deployed, AgentAllowance within
\* its own bound on the advances of time.
AUntouched == allowanceIdCounter = 0 /\ ~aPaused

SNext ==
    \/ IInit /\ RInit /\ ticks <= MaxTicks /\ ANext
    \/ AUntouched /\ RInit /\ INext
    \/ AUntouched /\ IInit /\ BNext

SpecSystem == Init /\ [][SNext]_vars

(***************************************************************************)
(* Properties of AgentAllowance.  A property of a call is stated over      *)
(* every call of the input sets, made in the current state.                *)
(***************************************************************************)
SpendInputs ==
    [sender : Spenders, allowanceId : AllowanceIds, recipient : Recipients,
     amount : Amounts, tok : TokenBehaviours]

\* The call c of spend made now, as a transaction of its own.
SpendNow(c) ==
    spend(AStore, FALSE, c.sender, c.allowanceId, c.recipient, c.amount, now, c.tok)

\* C1: createAllowance and every successful spend leave spent <= limit, and
\* no step other than a change of the limit by updateAllowance takes an
\* allowance from spent <= limit to spent > limit; so spent <= limit after
\* every sequence of createAllowance and spend calls.
C1_SpendWithinLimit ==
    [][\A id \in AllowanceIds :
         LET a == allowances[id]
             b == allowances'[id]
         IN  /\ (a.owner = Zero \/ b.spent # a.spent \/ b.lastReset # a.lastReset)
                    => b.spent <= b.limit
             /\ (b.limit = a.limit /\ a.spent <= a.limit) => b.spent <= b.limit]_vars

\* C1 witness: an allowance spent up to its limit, on which one more token
\* is refused.
C1_Witness ==
    \E id \in AllowanceIds :
        /\ allowances[id].spent = allowances[id].limit
        /\ allowances[id].spent > 0
        /\ ~shouldReset(AStore, id, now)
        /\ spend(AStore, FALSE, allowances[id].agent, id, "X", 1, now,
                 [result |-> "true", cb |-> NoCall]).err = "InsufficientAllowance"

\* C2 (as claimed): spent <= limit for every allowance in every reachable
\* state, updateAllowance included.
C2_SpentWithinLimitAlways ==
    \A id \in AllowanceIds : allowances[id].spent <= allowances[id].limit

\* C3: a spend called from the transfer callback of a running spend is
\* rejected, and a spend that succeeds leaves the tokens moved in the period
\* equal to spent and within the limit.
C3_NestedSpendRejected ==
    \A c \in SpendInputs :
        LET res == SpendNow(c)
            id  == c.allowanceId
        IN  /\ res.nested # "executed"
            /\ res.err = "" =>
                  /\ res.st.transferred[id] = res.st.allowances[id].spent
                  /\ res.st.transferred[id] <= res.st.allowances[id].limit

\* C3 witness: a spend succeeds although the token called spend again; the
\* nested call was rejected, and the same call is accepted once the outer
\* call has returned.
C3_Witness ==
    \E c \in SpendInputs :
        LET res == SpendNow(c)
        IN  /\ c.tok.cb.kind = "spend"
            /\ res.err = ""
            /\ res.nested = "rejected"
            /\ spend(res.st, FALSE, c.tok.cb.sender, c.tok.cb.allowanceId,
                     c.tok.cb.recipient, c.tok.cb.amount, now, c.tok.cb.tok).err = ""

\* C4: a spend whose token transfer fails (returns false or reverts) fails
\* and leaves the whole storage as before the call, a due period reset
\* included.
C4_FailedTransferRollsBack ==
    \A c \in SpendInputs :
        c.tok.result \in {"false", "revert"} =>
            LET res == SpendNow(c)
            IN  /\ res.err # ""
                /\ Commit(AStore, res) = AStore

\* C4 witness: a spend that had reset the period and incremented spent when
\* the transfer failed.
C4_Witness ==
    \E c \in SpendInputs :
        LET res == SpendNow(c)
        IN  /\ c.tok.result = "false"
            /\ c.amount > 0
            /\ shouldReset(AStore, c.allowanceId, now)
            /\ allowances[c.allowanceId].spent > 0
            /\ res.err = "Transfer failed"
            /\ res.st.allowances[c.allowanceId].lastReset = now
            /\ res.st.allowances[c.allowanceId].spent = c.amount

\* The multi-sig gate applies to the call and is not met.
GateUnmet(c) ==
    LET multiSig == multiSigConfigs[allowances[c.allowanceId].agent]
        txHash   == TxHash(c.allowanceId, c.recipient, c.amount, now)
    IN  /\ c.amount >= multiSig.threshold
        /\ multiSig.threshold > 0
        /\ ApprovalsOf(multiSig, txHash) < Len(multiSig.signers)

\* The call passes every check that spend makes before the multi-sig gate.
PassesEarlierChecks(c) ==
    LET a  == allowances[c.allowanceId]
        a1 == resetPeriodIfNeeded(AStore, c.allowanceId, now).allowances[c.allowanceId]
    IN  /\ ~aPaused
        /\ a.active
        /\ c.sender = a.agent
        /\ c.recipient # Zero
        /\ a1.spent + c.amount <= a1.limit

\* C5 (as claimed): a spend on which the gate is unmet fails with
\* MultiSigRequired whatever the remaining capacity of the allowance is
\* (stated for the calls of the agent to a non-zero recipient on an active
\* allowance of an unpaused contract, which leaves the capacity to differ).
C5_AlwaysMultiSigRequired ==
    \A c \in SpendInputs :
        (/\ GateUnmet(c)
         /\ ~aPaused
         /\ allowances[c.allowanceId].active
         /\ c.sender = allowances[c.allowanceId].agent
         /\ c.recipient # Zero) => SpendNow(c).err = "MultiSigRequired"

\* C5 (amended): a spend on which the gate is unmet fails and leaves the
\* allowance unchanged; the error is MultiSigRequired when the call passes
\* the checks made before the gate.
C5_GatedSpendFails ==
    \A c \in SpendInputs :
        GateUnmet(c) =>
            LET res == SpendNow(c)
            IN  /\ res.err # ""
                /\ Commit(AStore, res).allowances = allowances
                /\ PassesEarlierChecks(c) => res.err = "MultiSigRequired"

\* C5 witness: a spend within the remaining capacity that the gate stops.
C5_Witness ==
    \E c \in SpendInputs :
        /\ GateUnmet(c)
        /\ PassesEarlierChecks(c)
        /\ SpendNow(c).err = "MultiSigRequired"

\* C6: no approval count exceeds 1, a further approveTransaction of an
\* approved hash fails with AlreadyApproved for every signer, and under a
\* config of two or more signers no spend with amount >= threshold > 0
\* succeeds.
C6_SingleApprovalOnly ==
    /\ \A agent \in Addresses :
         LET config == multiSigConfigs[agent]
         IN  /\ \A h \in DOMAIN config.approvals : config.approvals[h] <= 1
             /\ \A h \in DOMAIN config.approvals, i \in 1 .. Len(config.signers) :
                  approveTransaction(AStore, config.signers[i], h, agent).err
                      = "AlreadyApproved"
    /\ \A c \in SpendInputs :
         LET multiSig == multiSigConfigs[allowances[c.allowanceId].agent]
         IN  (/\ Len(multiSig.signers) >= 2
              /\ c.amount >= multiSig.threshold
              /\ multiSig.threshold > 0) => SpendNow(c).err # ""

\* C6 witness: two signers, the hash of a spend approved once, and that spend
\* refused by the gate.
C6_Witness ==
    \E c \in SpendInputs :
        LET multiSig == multiSigConfigs[allowances[c.allowanceId].agent]
        IN  /\ Len(multiSig.signers) >= 2
            /\ ApprovalsOf(multiSig, TxHash(c.allowanceId, c.recipient, c.amount, now)) = 1
            /\ SpendNow(c).err = "MultiSigRequired"

(***************************************************************************)
(* Properties of InvoiceSettlement.                                        *)
(***************************************************************************)
PayInputs ==
    [sender : InvoiceParties, invoiceId : InvoiceIds, amount : InvoiceAmounts,
     resultIn : TokenResults, resultOut : TokenResults]

\* The call c of payInvoice made now, as a transaction of its own.
PayNow(c) ==
    payInvoice(IStore, FALSE, c.sender, c.invoiceId, c.amount, c.resultIn, c.resultOut)

\* C7: paidAmount <= amount for every invoice in every reachable state, and a
\* payInvoice of more than amount - paidAmount fails: with InvoiceOverpaid
\* when the recipient makes it on a SENT or ESCROWED invoice of the unpaused
\* contract, and at an earlier check otherwise.
C7_NeverOverpaid ==
    /\ \A id \in InvoiceIds : invoices[id].paidAmount <= invoices[id].amount
    /\ \A c \in PayInputs :
         LET invoice == invoices[c.invoiceId]
             res     == PayNow(c)
         IN  c.amount > invoice.amount - invoice.paidAmount =>
                /\ res.err # ""
                /\ Commit(IStore, res) = IStore
                /\ (/\ ~iPaused
                    /\ c.sender = invoice.recipient
                    /\ invoice.state \in {"SENT", "ESCROWED"})
                       => res.err = "InvoiceOverpaid"

\* C7 witness: a partly paid invoice on which the recipient's payment of more
\* than the rest is refused.
C7_Witness ==
    \E c \in PayInputs :
        LET invoice == invoices[c.invoiceId]
        IN  /\ invoice.state = "ESCROWED"
            /\ invoice.paidAmount > 0
            /\ c.sender = invoice.recipient
            /\ c.amount > invoice.amount - invoice.paidAmount
            /\ c.resultIn = "true"
            /\ PayNow(c).err = "InvoiceOverpaid"

\* C8: the escrow balance of an invoice follows paidAmount by state: both are
\* 0 in DRAFT and SENT, they are equal in ESCROWED and DISPUTED, and the
\* escrow balance is 0 in PAID and CANCELLED.
C8_EscrowTracksPaid ==
    \A id \in InvoiceIds :
        LET invoice == invoices[id]
        IN  /\ invoice.state \in {"DRAFT", "SENT"} =>
                  escrowBalances[id] = 0 /\ invoice.paidAmount = 0
            /\ invoice.state \in {"ESCROWED", "DISPUTED"} =>
                  escrowBalances[id] = invoice.paidAmount
            /\ invoice.state \in {"PAID", "CANCELLED"} => escrowBalances[id] = 0

\* C8 witness: an invoice that held a part payment in escrow, was disputed
\* and refunded: it is CANCELLED with escrow balance 0 and keeps its paidAmount.
C8_Witness ==
    \E id \in InvoiceIds :
        /\ invoices[id].state = "CANCELLED"
        /\ disputes[id].resolved
        /\ invoices[id].paidAmount > 0
        /\ invoices[id].paidAmount < invoices[id].amount
        /\ escrowBalances[id] = 0
        /\ balances["R"] = InitialFunds

ClaimedTransitions ==
    {<<"DRAFT", "SENT">>, <<"SENT", "ESCROWED">>, <<"ESCROWED", "PAID">>,
     <<"DRAFT", "CANCELLED">>, <<"SENT", "CANCELLED">>, <<"ESCROWED", "DISPUTED">>,
     <<"DISPUTED", "PAID">>, <<"DISPUTED", "CANCELLED">>}

\* C9 (as claimed): every change of an invoice's state by one call is one of
\* the eight listed transitions.
C9_OnlyClaimedTransitions ==
    [][\A id \in InvoiceIds :
         invoices'[id].state # invoices[id].state =>
            <<invoices[id].state, invoices'[id].state>> \in ClaimedTransitions]_vars

\* C9 (amended): every change of an invoice's state by one call is one of the
\* eight listed transitions or SENT -> PAID (a first payment in full settles
\* in the same call); PAID and CANCELLED are never left.
C9_OnlyLifecycleTransitions ==
    [][\A id \in InvoiceIds :
         invoices'[id].state # invoices[id].state =>
            <<invoices[id].state, invoices'[id].state>>
                \in ClaimedTransitions \cup {<<"SENT", "PAID">>}]_vars

\* C9 witness: a paid invoice that forbids part payments, which was settled
\* by its first payment.
C9_Witness ==
    \E id \in InvoiceIds :
        /\ invoices[id].state = "PAID"
        /\ ~invoices[id].partialPayment
        /\ invoices[id].paidAmount = invoices[id].amount

\* C10: a call that settles an invoice holding e in escrow (the payment of
\* that call included) adds floor(e*500/10000) to collectedFees, pays the
\* issuer e less that fee, and leaves the escrow balance 0 and the state PAID.
C10_SettlementSplit ==
    [][\A id \in InvoiceIds :
         (invoices[id].state # "PAID" /\ invoices'[id].state = "PAID") =>
            LET issuer == invoices[id].issuer
                e      == escrowBalances[id]
                              + (invoices'[id].paidAmount - invoices[id].paidAmount)
                fee    == (e * 500) \div 10000
            IN  /\ collectedFees' = collectedFees + fee
                /\ balances'[issuer] = balances[issuer] + (e - fee)
                /\ escrowBalances'[id] = 0
                /\ fee + (balances'[issuer] - balances[issuer]) = e]_vars

\* C10 witness: an invoice of 100 settled, 95 with the issuer and 5 in fees.
C10_Witness ==
    \E id \in InvoiceIds :
        /\ invoices[id].state = "PAID"
        /\ invoices[id].amount = 100
        /\ balances[invoices[id].issuer] = 95
        /\ collectedFees = 5

\* C11: no call lowers the paidAmount of an invoice, and the call that
\* finalizes a dispute by a refund (DISPUTED -> CANCELLED) leaves the escrow
\* balance 0 and paidAmount as it was.
C11_PaidAmountNeverDecreases ==
    [][\A id \in InvoiceIds :
         /\ invoices'[id].paidAmount >= invoices[id].paidAmount
         /\ (invoices[id].state = "DISPUTED" /\ invoices'[id].state = "CANCELLED") =>
               /\ escrowBalances'[id] = 0
               /\ invoices'[id].paidAmount = invoices[id].paidAmount
               /\ invoices[id].paidAmount > 0]_vars

\* C11 witness: a refunded invoice that had been paid in two parts: its
\* paidAmount is the sum of both payments while nothing is left in escrow.
C11_Witness ==
    \E id \in InvoiceIds :
        /\ invoices[id].state = "CANCELLED"
        /\ disputes[id].resolved
        /\ invoices[id].paidAmount = 2 * AmountStep
        /\ escrowBalances[id] = 0
        /\ balances[Escrow] = 0

\* C12: a payInvoice of less than amount - paidAmount on an invoice with
\* partialPayment = false fails and leaves the storage (paidAmount, escrow
\* balance and state included) unchanged; made by the recipient of a SENT or
\* ESCROWED invoice with amount > 0 on the unpaused contract it fails with
\* PartialPaymentsNotAllowed.
C12_PartialPaymentRefused ==
    \A c \in PayInputs :
        LET invoice == invoices[c.invoiceId]
            res     == PayNow(c)
        IN  (~invoice.partialPayment /\ c.amount < invoice.amount - invoice.paidAmount) =>
                /\ res.err # ""
                /\ Commit(IStore, res) = IStore
                /\ (/\ ~iPaused
                    /\ c.sender = invoice.recipient
                    /\ invoice.state \in {"SENT", "ESCROWED"}
                    /\ c.amount > 0) => res.err = "PartialPaymentsNotAllowed"

\* C12 witness: the recipient's part payment, which the token would accept,
\* is refused on a SENT invoice that forbids part payments.
C12_Witness ==
    \E c \in PayInputs :
        LET invoice == invoices[c.invoiceId]
        IN  /\ invoice.state = "SENT"
            /\ ~invoice.partialPayment
            /\ c.sender = invoice.recipient
            /\ c.amount > 0
            /\ c.amount < invoice.amount
            /\ c.resultIn = "true"
            /\ ~iPaused
            /\ PayNow(c).err = "PartialPaymentsNotAllowed"

ResolveInputs ==
    [sender : ResolverInputs, invoiceId : InvoiceIds, refund : BOOLEAN,
     result : TokenResults]

\* The call c of resolveDispute made now, as a transaction of its own.
ResolveNow(c) ==
    resolveDispute(IStore, c.sender, c.invoiceId, c.refund, c.result)

\* Majority of a dispute with n validators.
Majority(n) == (n \div 2) + 1

\* C13: a dispute with n validators is resolved exactly when validatorApprovals
\* has reached floor(n/2)+1; while it has fewer approvals the invoice is
\* DISPUTED and its escrow balance is the paidAmount; and a resolveDispute call
\* that leaves the count below floor(n/2)+1 changes nothing but the count.
C13_MajorityFinalizes ==
    /\ \A id \in InvoiceIds :
         LET dispute == disputes[id]
             n       == Len(dispute.validators)
         IN  n > 0 =>
               /\ dispute.resolved <=> dispute.validatorApprovals = Majority(n)
               /\ dispute.validatorApprovals <= Majority(n)
               /\ ~dispute.resolved =>
                     /\ invoices[id].state = "DISPUTED"
                     /\ escrowBalances[id] = invoices[id].paidAmount
               /\ dispute.resolved => invoices[id].state \in {"PAID", "CANCELLED"}
    /\ \A c \in ResolveInputs :
         LET res     == ResolveNow(c)
             post    == Commit(IStore, res)
             dispute == disputes[c.invoiceId]
         IN  (res.err = "" /\ dispute.validatorApprovals + 1
                                  < Majority(Len(dispute.validators))) =>
                /\ post.invoices = invoices
                /\ post.balances = balances
                /\ post.escrowBalances = escrowBalances
                /\ post.collectedFees = collectedFees
                /\ ~post.disputes[c.invoiceId].resolved

\* C13 witness: three validators and one approval: the invoice is DISPUTED with
\* its funds in escrow, and the next validator's call finalizes the dispute.
C13_Witness ==
    \E c \in ResolveInputs :
        LET dispute == disputes[c.invoiceId]
            res     == ResolveNow(c)
        IN  /\ Len(dispute.validators) = 3
            /\ dispute.validatorApprovals = 1
            /\ invoices[c.invoiceId].state = "DISPUTED"
            /\ escrowBalances[c.invoiceId] > 0
            /\ balances[Escrow] = escrowBalances[c.invoiceId]
            /\ res.err = ""
            /\ res.st.disputes[c.invoiceId].resolved
            /\ res.st.disputes[c.invoiceId].validatorApprovals = 2
            /\ res.st.balances[Escrow] < balances[Escrow]

\* C14 (as claimed): a dispute with n validators is resolved only after
\* floor(n/2)+1 distinct validators have called resolveDispute.
C14_DistinctValidatorsDecide ==
    \A id \in InvoiceIds :
        disputes[id].resolved =>
            Cardinality(voters[id]) >= Majority(Len(disputes[id].validators))

\* C15: on a resolved dispute every resolveDispute call fails with "Already
\* resolved" and leaves the storage unchanged, and nothing of the invoice is
\* left in escrow that could be paid a second time.
C15_ResolvedIsFinal ==
    /\ \A id \in InvoiceIds : disputes[id].resolved => escrowBalances[id] = 0
    /\ \A c \in ResolveInputs :
         disputes[c.invoiceId].resolved =>
            LET res == ResolveNow(c)
            IN  /\ res.err = "Already resolved"
                /\ Commit(IStore, res) = IStore

\* C15 witness: a dispute settled to the issuer on which a listed validator
\* calls resolveDispute once more.
C15_Witness ==
    \E c \in ResolveInputs :
        LET dispute == disputes[c.invoiceId]
        IN  /\ dispute.resolved
            /\ \E i \in 1 .. Len(dispute.validators) : dispute.validators[i] = c.sender
            /\ invoices[c.invoiceId].state = "PAID"
            /\ c.result = "true"
            /\ ResolveNow(c).err = "Already resolved"

\* C16: the resolveDispute call that finalizes a dispute with refund = true
\* moves the whole escrow balance of the invoice to the recipient, pays the
\* issuer nothing, accrues no fee and leaves the invoice CANCELLED; with
\* refund = false it accrues the fee floor(e*500/10000), pays the issuer the
\* rest and leaves the invoice PAID.  Either way the escrow balance becomes 0.
C16_RefundOrSettle ==
    \A c \in ResolveInputs :
        LET res       == ResolveNow(c)
            post      == Commit(IStore, res)
            id        == c.invoiceId
            issuer    == invoices[id].issuer
            recipient == invoices[id].recipient
            e         == escrowBalances[id]
            fee       == (e * 500) \div 10000
        IN  (res.err = "" /\ post.disputes[id].resolved) =>
               /\ post.escrowBalances[id] = 0
               /\ c.refund =>
                     /\ post.balances[recipient] = balances[recipient] + e
                     /\ post.balances[Escrow] = balances[Escrow] - e
                     /\ post.balances[issuer] = balances[issuer]
                     /\ post.collectedFees = collectedFees
                     /\ post.invoices[id].state = "CANCELLED"
               /\ ~c.refund =>
                     /\ post.balances[issuer] = balances[issuer] + (e - fee)
                     /\ post.balances[recipient] = balances[recipient]
                     /\ post.balances[Escrow] = balances[Escrow] - (e - fee)
                     /\ post.collectedFees = collectedFees + fee
                     /\ post.invoices[id].state = "PAID"

\* C16 witness: a dispute one approval short of its majority with funds in
\* escrow, which the next validator can finalize either way.
C16_Witness ==
    \E c, d \in ResolveInputs :
        /\ c.invoiceId = d.invoiceId
        /\ c.refund /\ ~d.refund
        /\ escrowBalances[c.invoiceId] >= 2 * AmountStep
        /\ ResolveNow(c).err = ""
        /\ ResolveNow(c).st.invoices[c.invoiceId].state = "CANCELLED"
        /\ ResolveNow(c).st.balances["R"] = InitialFunds
        /\ ResolveNow(d).err = ""
        /\ ResolveNow(d).st.invoices[d.invoiceId].state = "PAID"
        /\ ResolveNow(d).st.collectedFees > collectedFees

CancelInputs == [sender : InvoiceParties, invoiceId : InvoiceIds]

\* The call c of cancelInvoice made now, as a transaction of its own.
CancelNow(c) == cancelInvoice(IStore, c.sender, c.invoiceId)

\* C17: a cancelInvoice call that succeeds is made by the issuer on a DRAFT or
\* SENT invoice with nothing paid and nothing in escrow, and it changes
\* nothing but the state of that invoice; on an invoice with a positive
\* escrow balance or paidAmount every cancelInvoice call fails.
C17_CancelOnlyBeforeEscrow ==
    \A c \in CancelInputs :
        LET res     == CancelNow(c)
            post    == Commit(IStore, res)
            invoice == invoices[c.invoiceId]
        IN  /\ res.err = "" =>
                 /\ c.sender = invoice.issuer
                 /\ invoice.state \in {"DRAFT", "SENT"}
                 /\ invoice.paidAmount = 0
                 /\ escrowBalances[c.invoiceId] = 0
                 /\ post = [IStore EXCEPT !.invoices[c.invoiceId].state = "CANCELLED"]
            /\ (escrowBalances[c.invoiceId] > 0 \/ invoice.paidAmount > 0) =>
                 /\ res.err # ""
                 /\ post = IStore

\* C17 witness: an invoice with funds in escrow, which its issuer tries to
\* cancel.
C17_Witness ==
    \E c \in CancelInputs :
        /\ c.sender = invoices[c.invoiceId].issuer
        /\ invoices[c.invoiceId].state = "ESCROWED"
        /\ escrowBalances[c.invoiceId] > 0
        /\ CancelNow(c).err = "InvalidState"

(***************************************************************************)
(* Properties of RecurringPayments.                                        *)
(***************************************************************************)
BillInputs == [subId : SubscriptionIds, tok : PlainToken]

\* The call c of processBilling made now, as a transaction of its own.
BillNow(c) == processBilling(RStore, FALSE, c.subId, now, c.tok)

\* C18: failedBillings < 3 for every ACTIVE subscription and failedBillings <= 3
\* for every subscription, and no processBilling call fails with
\* TooManyFailures.
C18_FailuresBelowMax ==
    /\ \A id \in SubscriptionIds :
         /\ subscriptions[id].state = "ACTIVE" => subscriptions[id].failedBillings < 3
         /\ subscriptions[id].failedBillings <= 3
    /\ \A c \in BillInputs : BillNow(c).err # "TooManyFailures"

\* C18 witness: a due ACTIVE subscription with two failures, whose next
\* billing attempt fails and expires it.
C18_Witness ==
    \E c \in BillInputs :
        LET sub == subscriptions[c.subId]
            res == BillNow(c)
        IN  /\ sub.subscriber = "A"
            /\ sub.state = "ACTIVE"
            /\ sub.failedBillings = 2
            /\ res.err = ""
            /\ res.nested = "failed"
            /\ res.st.subscriptions[c.subId].state = "EXPIRED"
            /\ res.st.subscriptions[c.subId].failedBillings = 3

Billable(id) ==
    LET sub == subscriptions[id]
    IN  /\ sub.state = "ACTIVE"
        /\ sub.subscriber # Zero
        /\ now >= sub.nextBilling
        /\ ~rPaused
        /\ ~aPaused
        /\ allowances[sub.allowanceId].active
        /\ ~remainingUnderflows(AStore, sub.allowanceId, now)
        /\ getRemainingAllowance(AStore, sub.allowanceId, now) >= sub.amount
        /\ multiSigConfigs[allowances[sub.allowanceId].agent].threshold = 0

\* C20 (as claimed): processBilling on a due ACTIVE subscription whose linked
\* allowance is active, covers the amount and is not multi-sig gated, with a
\* token that makes the transfer, bills: amount more has moved from the
\* allowance and totalPaid has grown by amount.
C20_DueSubscriptionIsBilled ==
    \A c \in BillInputs :
        (Billable(c.subId) /\ c.tok.result = "true") =>
            LET sub == subscriptions[c.subId]
                res == BillNow(c)
            IN  /\ res.err = ""
                /\ res.nested = "billed"
                /\ res.st.subscriptions[c.subId].totalPaid = sub.totalPaid + sub.amount
                /\ res.st.allowance.transferred[sub.allowanceId]
                       = resetPeriodIfNeeded(AStore, sub.allowanceId, now)
                             .transferred[sub.allowanceId] + sub.amount

\* Subscription id was created by subscribe, is ACTIVE and is due.
DueActive(id) ==
    LET sub == subscriptions[id]
    IN  /\ sub.subscriber # Zero
        /\ sub.state = "ACTIVE"
        /\ now >= sub.nextBilling

\* C21 (as claimed): processBilling on a due ACTIVE subscription, made while
\* RecurringPayments is not paused, returns successfully whatever becomes of
\* the spend: it either bills, or counts one failure more and expires the
\* subscription when the count reaches 3.
C21_BillingFailureIsCounted ==
    \A c \in BillInputs :
        (DueActive(c.subId) /\ ~rPaused) =>
            LET sub  == subscriptions[c.subId]
                res  == BillNow(c)
                post == Commit(RStore, res).subscriptions[c.subId]
            IN  /\ res.err = ""
                /\ res.nested \in {"billed", "failed"}
                /\ res.nested = "failed" =>
                     /\ post.failedBillings = sub.failedBillings + 1
                     /\ post.state = "EXPIRED" <=> post.failedBillings = 3

\* The storage after processBilling has been called on subIds[i], subIds[i+1],
\* ... in list order, each call a transaction of its own whose failure is
\* ignored.
RECURSIVE EachBilledInOrder(_, _, _, _, _)
EachBilledInOrder(st, subIds, i, t, tok) ==
    IF i > Len(subIds) THEN st
    ELSE EachBilledInOrder(Commit(st, processBilling(st, FALSE, subIds[i], t, tok)),
                           subIds, i + 1, t, tok)

\* C22 (as claimed): batchBilling on ids created by subscribe, called while
\* RecurringPayments is not paused, succeeds and leaves the storage that
\* calling processBilling on each id in list order, failures ignored, leaves.
C22_BatchIsEachInOrder ==
    \A subIds \in SubIdArrays, tok \in PlainToken :
        (/\ ~rPaused
         /\ \A i \in 1 .. Len(subIds) : subscriptions[subIds[i]].subscriber # Zero) =>
            LET res == batchBilling(RStore, FALSE, subIds, now, tok)
            IN  /\ res.err = ""
                /\ res.st = EachBilledInOrder(RStore, subIds, 1, now, tok)

(***************************************************************************)
(* Properties of RecurringPayments that concern a billing that succeeds,   *)
(* stated over the answers an allowance contract can give.                 *)
(***************************************************************************)
BillAnyInputs == [subId : SubscriptionIds, ledger : LedgerAnswers(AStore)]

\* The call c of processBilling made now, as a transaction of its own.
BillAnyNow(c) == processBillingWith(RStore, FALSE, c.subId, now, c.ledger)

C24_OneFailurePerDueCycle ==
    \A c \in BillInputs :
        LET sub    == subscriptions[c.subId]
            first  == BillNow(c)
            second == processBilling(Commit(RStore, first), FALSE, c.subId, now, c.tok)
            third  == processBilling(Commit(Commit(RStore, first), second), FALSE,
                                     c.subId, now, c.tok)
        IN  (sub.subscriber # Zero /\ first.nested = "failed") =>
                /\ second.nested # "failed"
                /\ sub.failedBillings = 0 =>
                     ~(/\ third.err = ""
                       /\ third.st.subscriptions[c.subId].state = "EXPIRED")

CancelSubInputs ==
    [sender : Subscribers, subId : SubscriptionIds, result : TokenResults]

\* The call c of cancelSubscription made now, as a transaction of its own.
CancelSubNow(c) == cancelSubscription(RStore, c.sender, c.subId, now, c.result)

\* C25: for a subscription that its subscriber can cancel (ACTIVE or PAUSED),
\* the refund of cancelSubscription is floor(amount * (duration - elapsed) /
\* duration) when lastBilled > 0 and elapsed = now - lastBilled < duration,
\* and 0 otherwise; it lies between 0 and amount, it is 15 for amount 30,
\* DAILY and elapsed 43200, and the call asks the token for a transfer
\* exactly when the refund is positive.
C25_ProratedRefund ==
    \A c \in CancelSubInputs :
        LET sub     == subscriptions[c.subId]
            d       == getIntervalDuration(sub.interval)
            elapsed == now - sub.lastBilled
            refund  == proratedRefund(sub, now)
            res     == CancelSubNow(c)
        IN  (c.sender = sub.subscriber /\ sub.state \in {"ACTIVE", "PAUSED"}) =>
                /\ (sub.lastBilled > 0 /\ elapsed < d) =>
                       refund = (sub.amount * (d - elapsed)) \div d
                /\ ~(sub.lastBilled > 0 /\ elapsed < d) => refund = 0
                /\ 0 <= refund /\ refund <= sub.amount
                /\ (sub.amount = 30 /\ sub.interval = "DAILY" /\ elapsed = 43200) =>
                       refund = 15
                /\ c.result = "true" =>
                       /\ res.err = ""
                       /\ res.tok = "true" <=> refund > 0

\* C25 witness: a DAILY subscription of 30 billed half a day ago is cancelled
\* by its subscriber with a refund of 15.
C25_Witness ==
    \E c \in CancelSubInputs :
        LET sub == subscriptions[c.subId]
        IN  /\ c.sender = sub.subscriber
            /\ sub.state \in {"ACTIVE", "PAUSED"}
            /\ sub.amount = 30
            /\ sub.interval = "DAILY"
            /\ sub.lastBilled > 0
            /\ now - sub.lastBilled = 43200
            /\ proratedRefund(sub, now) = 15
            /\ c.result = "true"
            /\ CancelSubNow(c).err = ""
            /\ CancelSubNow(c).st.subscriptions[c.subId].state = "CANCELLED"

\* The tokens that RecurringPayments holds when subscription id is the only
\* one: a billing moves amount from the allowance's owner to the provider
\* (the transferFrom of spend) and no function of the contract takes tokens
\* in, so it holds what was billed to a subscription whose provider is the
\* contract itself.
Custody(id) ==
    IF subscriptions[id].provider = Recurring THEN subscriptions[id].totalPaid ELSE 0

C27_RevokedStaysRevoked ==
    [][\A id \in AllowanceIds :
         (id < allowanceIdCounter /\ ~allowances[id].active) =>
             /\ ~allowances'[id].active
             /\ getRemainingAllowance(AStore, id, now) = 0
             /\ \A c \in SpendInputs :
                  c.allowanceId = id =>
                      /\ SpendNow(c).err # ""
                      /\ Commit(AStore, SpendNow(c)) = AStore
                      /\ ~aPaused => SpendNow(c).err = "AllowanceNotActive"]_vars

\* C27 witness: a revoked allowance with unspent limit, after time has
\* passed, on which the spend of its agent is refused as not active.
C27_Witness ==
    \E c \in SpendInputs :
        LET a == allowances[c.allowanceId]
        IN  /\ c.allowanceId < allowanceIdCounter
            /\ ~a.active
            /\ a.spent < a.limit
            /\ ticks > 0
            /\ ~aPaused
            /\ c.sender = a.agent
            /\ c.recipient # Zero
            /\ c.amount > 0
            /\ SpendNow(c).err = "AllowanceNotActive"
            /\ getRemainingAllowance(AStore, c.allowanceId, now) = 0

(***************************************************************************)
(* Properties of all three contracts.                                      *)
(***************************************************************************)
\* The call with outcome res, made on storage pre, has no effect if it fails.
FailsWithoutEffect(pre, res) == res.err # "" => Commit(pre, res) = pre

C30_RemainingWithinLimit ==
    \A id \in AllowanceIds :
        LET a == allowances[id]
        IN  /\ ~remainingUnderflows(AStore, id, now)
            /\ getRemainingAllowance(AStore, id, now) \in 0 .. a.limit
            /\ getRemainingAllowance(AStore, id, now) =
                  IF ~a.active THEN 0
                  ELSE IF shouldReset(AStore, id, now) THEN a.limit
                  ELSE a.limit - a.spent

\* The fields of an allowance that only its owner's calls may change.
OwnerFields(a) == <<a.limit, a.period, a.active>>

\* The calls made now on a created allowance respect the roles: every spend
\* by a caller other than the agent fails, every updateAllowance and
\* revokeAllowance by a caller other than the owner fails, and no call
\* changes a field that is not its caller's to change.
RolesRespected(id) ==
    LET a == allowances[id]
    IN  /\ \A c \in SpendInputs :
             LET res == SpendNow(c)
             IN  c.allowanceId = id =>
                     /\ c.sender # a.agent => res.err # ""
                     /\ OwnerFields(Commit(AStore, res).allowances[id]) = OwnerFields(a)
                     /\ (~a.active /\ ~aPaused) => res.err = "AllowanceNotActive"
        /\ \A sender \in Owners, newLimit \in Amounts, newPeriod \in Periods :
             LET upd == updateAllowance(AStore, sender, id, newLimit, newPeriod)
                 rev == revokeAllowance(AStore, sender, id)
             IN  /\ sender # a.owner => upd.err # "" /\ rev.err # ""
                 /\ Commit(AStore, upd).allowances[id].spent = a.spent
                 /\ Commit(AStore, rev).allowances[id].spent = a.spent
        /\ \A sender \in Owners, threshold \in Amounts, signers \in SignerArrays :
             Commit(AStore, configureMultiSig(AStore, sender, a.agent, threshold,
                                              signers)).allowances[id] = a
        /\ \A sender \in Owners, amount \in Amounts \ {0} :
             Commit(AStore, approveTransaction(AStore, sender,
                        TxHash(id, "X", amount, now), a.agent)).allowances[id] = a
        /\ \A sender \in Admins :
             /\ Commit(AStore, pause(AStore, sender)).allowances[id] = a
             /\ Commit(AStore, unpause(AStore, sender)).allowances[id] = a

\* C31: for every created allowance, a step changes spent only as a spend made
\* by its agent does, and changes limit, period or active only as an
\* updateAllowance or revokeAllowance made by its owner does.  Every spend by
\* a caller other than the agent fails, every updateAllowance and
\* revokeAllowance by a caller other than the owner fails, and no call of
\* another function changes these fields.  On an allowance that is not active
\* a spend fails with AllowanceNotActive whoever calls (contract not paused).
C31_OnlyAgentSpendsOnlyOwnerSets ==
    /\ [](\A id \in AllowanceIds : id < allowanceIdCounter => RolesRespected(id))
    /\ [][\A id \in AllowanceIds :
            LET a == allowances[id]
                b == allowances'[id]
            IN  id < allowanceIdCounter =>
                /\ b.spent # a.spent =>
                     \E c \in SpendInputs :
                         /\ c.allowanceId = id
                         /\ c.sender = a.agent
                         /\ SpendNow(c).err = ""
                         /\ allowances' = SpendNow(c).st.allowances
                /\ OwnerFields(b) # OwnerFields(a) =>
                     \E newLimit \in Amounts, newPeriod \in Periods :
                         \/ LET res == updateAllowance(AStore, a.owner, id, newLimit,
                                                       newPeriod)
                            IN  res.err = "" /\ allowances' = res.st.allowances
                         \/ LET res == revokeAllowance(AStore, a.owner, id)
                            IN  res.err = "" /\ allowances' = res.st.allowances]_vars

\* C31 witness: a revoked allowance of which the agent has spent; the spend of
\* a stranger is refused as not active, and the stranger's updateAllowance
\* and revokeAllowance are refused.
C31_Witness ==
    \E c \in SpendInputs :
        LET a == allowances[c.allowanceId]
        IN  /\ c.allowanceId < allowanceIdCounter
            /\ ~a.active
            /\ a.spent > 0
            /\ ~aPaused
            /\ c.sender \notin {a.agent, a.owner}
            /\ c.sender \in Owners
            /\ SpendNow(c).err = "AllowanceNotActive"
            /\ updateAllowance(AStore, c.sender, c.allowanceId, 1, "DAILY").err = "Not owner"
            /\ revokeAllowance(AStore, c.sender, c.allowanceId).err = "Not owner"

ConfigureInputs ==
    [sender : Owners, agent : {"A"}, threshold : Amounts, signers : SignerArrays]

\* The call c of configureMultiSig made now.
ConfigureNow(c) ==
    configureMultiSig(AStore, c.sender, c.agent, c.threshold, c.signers)

\* C32 (as claimed): configureMultiSig succeeds only for a caller that owns
\* an allowance of the agent; it leaves the agent's threshold and signers as
\* given; and after it no approval given before it counts: a spend that the
\* new config gates (amount >= threshold > 0, some signer) does not succeed
\* until it is approved anew.
C32_ReconfigureDropsApprovals ==
    \A c \in ConfigureInputs :
        LET res == ConfigureNow(c)
            ids == agentAllowances[c.agent]
        IN  res.err = "" =>
                /\ \E i \in 1 .. Len(ids) : allowances[ids[i]].owner = c.sender
                /\ res.st.multiSigConfigs[c.agent].threshold = c.threshold
                /\ res.st.multiSigConfigs[c.agent].signers = c.signers
                /\ \A s \in SpendInputs :
                     (/\ c.threshold > 0
                      /\ Len(c.signers) > 0
                      /\ s.amount >= c.threshold) =>
                         spend(res.st, FALSE, s.sender, s.allowanceId, s.recipient,
                               s.amount, now, s.tok).err # ""

(***************************************************************************)
(* Further properties of RecurringPayments.                                *)
(***************************************************************************)
\* C33: every subscribe that succeeds, whatever the allowance contract
\* answers, leaves the new subscription ACTIVE with nextBilling = now + 1, 7
\* or 30 days (DAILY, WEEKLY, MONTHLY), lastBilled = 0, failedBillings = 0
\* and totalPaid = 0; the billing attempt inside it returns as not due, the
\* storage of the allowance contract (and with it every token) is as before,
\* and no other subscription is changed.
C33_SubscribeBillsNothing ==
    \A sender \in Subscribers, provider \in ProviderInputs, amount \in BillAmounts,
       interval \in Periods, ledger \in LedgerAnswers(AStore) :
        subscriptionIdCounter \in SubscriptionIds =>
            LET res   == subscribeWith(RStore, FALSE, sender, provider, amount,
                                       interval, 0, now, ledger)
                subId == subscriptionIdCounter
                days  == CASE interval = "DAILY" -> 1 [] interval = "WEEKLY" -> 7
                           [] interval = "MONTHLY" -> 30
            IN  res.err = "" =>
                    /\ res.st.subscriptions[subId] =
                           [subscriber |-> sender, provider |-> provider,
                            amount |-> amount, interval |-> interval,
                            state |-> "ACTIVE", allowanceId |-> 0,
                            nextBilling |-> now + days * 86400,
                            lastBilled |-> 0, failedBillings |-> 0, totalPaid |-> 0]
                    /\ res.nested = "not due"
                    /\ res.st.allowance = AStore
                    /\ res.st.subscriptionIdCounter = subId + 1
                    /\ \A id \in SubscriptionIds \ {subId} :
                         res.st.subscriptions[id] = subscriptions[id]

\* C33 witness: a subscription as subscribe has just left it, made while the
\* allowance contract would have accepted the spend.
C33_Witness ==
    \E id \in SubscriptionIds :
        LET sub == subscriptions[id]
        IN  /\ id < subscriptionIdCounter
            /\ sub.subscriber # Zero
            /\ sub.amount > 0
            /\ sub.state = "ACTIVE"
            /\ sub.nextBilling = now + getIntervalDuration(sub.interval)
            /\ sub.lastBilled = 0 /\ sub.failedBillings = 0 /\ sub.totalPaid = 0
            /\ \E ledger \in LedgerAnswers(AStore) :
                 /\ ledger.paid.err = "" /\ ledger.remaining >= sub.amount
                 /\ ~ledger.panics
                 /\ processBillingWith(RStore, FALSE, id, now, ledger).nested = "not due"

\* Every billing attempt made at time t on the storage st leaves it as it is.
NoBillingEffect(st, id, t) ==
    /\ \A ledger \in LedgerAnswers(st.allowance) :
         Commit(st, processBillingWith(st, FALSE, id, t, ledger)) = st
    /\ \A subIds \in SubIdArrays, tok \in PlainToken :
         Commit(st, batchBilling(st, FALSE, subIds, t, tok)) = st

\* C34: on a PAUSED subscription every processBilling fails, with
\* SubscriptionNotActive when the contract is not paused, and no billing
\* attempt changes a subscription or the allowance contract.  Every
\* resumeSubscription that succeeds at time t leaves the subscription ACTIVE
\* with nextBilling = t + 1, 7 or 30 days, and no billing attempt made after
\* it at a time before that has an effect; the same holds in every state of
\* an ACTIVE subscription whose nextBilling is not reached.
C34_PausedIsNotBilled ==
    \A id \in SubscriptionIds :
        LET sub  == subscriptions[id]
            days == CASE sub.interval = "DAILY" -> 1 [] sub.interval = "WEEKLY" -> 7
                      [] sub.interval = "MONTHLY" -> 30
        IN  /\ sub.state = "PAUSED" =>
                 /\ NoBillingEffect(RStore, id, now)
                 /\ \A ledger \in LedgerAnswers(AStore) :
                      LET res == processBillingWith(RStore, FALSE, id, now, ledger)
                      IN  /\ res.err # ""
                          /\ ~rPaused => res.err = "SubscriptionNotActive"
                 /\ \A sender \in Subscribers :
                      LET res == resumeSubscription(RStore, sender, id, now)
                      IN  res.err = "" =>
                              /\ res.st.subscriptions[id] =
                                     [sub EXCEPT !.state = "ACTIVE",
                                                 !.nextBilling = now + days * 86400]
                              /\ \A d \in {0} \cup BillerSteps :
                                   d < days * 86400 =>
                                       NoBillingEffect(res.st, id, now + d)
            /\ (sub.state = "ACTIVE" /\ now < sub.nextBilling) =>
                 NoBillingEffect(RStore, id, now)

\* C34 witness: a subscription billed once, paused, and resumed a day later:
\* the time of the cycle that followed the billing has come, but the resume
\* has moved nextBilling past it, and a billing attempt that the allowance
\* contract would accept returns as not due.
C34_Witness ==
    \E id \in SubscriptionIds :
        LET sub == subscriptions[id]
        IN  /\ sub.state = "ACTIVE"
            /\ sub.lastBilled > 0
            /\ sub.totalPaid > 0
            /\ now >= sub.lastBilled + getIntervalDuration(sub.interval)
            /\ now < sub.nextBilling
            /\ ~rPaused
            /\ \E ledger \in LedgerAnswers(AStore) :
                 /\ ledger.paid.err = "" /\ ledger.remaining >= sub.amount
                 /\ ~ledger.panics
                 /\ processBillingWith(RStore, FALSE, id, now, ledger).nested = "not due"

(***************************************************************************)
(* Further properties of InvoiceSettlement.                                *)
(***************************************************************************)
\* The sum of escrowBalances over the invoice ids in S.
RECURSIVE EscrowSum(_)
EscrowSum(S) ==
    IF S = {} THEN 0
    ELSE LET id == CHOOSE i \in S : TRUE
         IN  escrowBalances[id] + EscrowSum(S \ {id})

C36_PaidIsFullyPaid ==
    \A id \in InvoiceIds :
        invoices[id].state = "PAID" => invoices[id].paidAmount = invoices[id].amount

\* C36 (amended): an invoice in state PAID holds no escrow and either was
\* never disputed and has paidAmount = amount (settled by the payment that
\* completed it), or was settled by the resolution of its dispute in favour
\* of the issuer and has 0 < paidAmount < amount.
C36_PaidInFullOrByDispute ==
    \A id \in InvoiceIds :
        LET invoice == invoices[id]
        IN  invoice.state = "PAID" =>
                /\ escrowBalances[id] = 0
                /\ \/ /\ disputes[id].initiator = Zero
                      /\ invoice.paidAmount = invoice.amount
                   \/ /\ disputes[id].resolved
                      /\ invoice.partialPayment
                      /\ 0 < invoice.paidAmount
                      /\ invoice.paidAmount < invoice.amount

\* C36 witness: an invoice paid in part, disputed, and settled to the issuer
\* by its validators: PAID with less than its amount paid.
C36_Witness ==
    \E id \in InvoiceIds :
        /\ invoices[id].state = "PAID"
        /\ disputes[id].resolved
        /\ invoices[id].paidAmount < invoices[id].amount
        /\ balances["I"] > 0
        /\ balances["I"] + collectedFees + balances[Deployer] = invoices[id].paidAmount

\* C37: an invoice in state ESCROWED or DISPUTED has partialPayment = true
\* and 0 < paidAmount < amount, and holds paidAmount in escrow; every
\* raiseDispute on an invoice with partialPayment = false fails, and every
\* payment that completes an invoice leaves it PAID, not ESCROWED.
C37_EscrowedIsPartlyPaid ==
    \A id \in InvoiceIds :
        LET invoice == invoices[id]
        IN  /\ invoice.state \in {"ESCROWED", "DISPUTED"} =>
                 /\ invoice.partialPayment
                 /\ 0 < invoice.paidAmount
                 /\ invoice.paidAmount < invoice.amount
                 /\ escrowBalances[id] = invoice.paidAmount
            /\ ~invoice.partialPayment =>
                 \A sender \in InvoiceParties, validators \in ValidatorArrays :
                     raiseDispute(IStore, sender, id, validators).err # ""
            /\ \A c \in PayInputs :
                 (c.invoiceId = id /\ PayNow(c).err = "") =>
                     LET after == PayNow(c).st.invoices[id]
                     IN  IF invoice.paidAmount + c.amount = invoice.amount
                         THEN after.state = "PAID"
                         ELSE after.state = "ESCROWED" /\ invoice.partialPayment

\* C37 witness: an invoice that allows partial payments, paid in part and
\* under a dispute that is not resolved.
C37_Witness ==
    \E id \in InvoiceIds :
        /\ invoices[id].state = "DISPUTED"
        /\ invoices[id].partialPayment
        /\ 0 < invoices[id].paidAmount
        /\ invoices[id].paidAmount < invoices[id].amount
        /\ ~disputes[id].resolved
        /\ disputes[id].initiator # Zero

\* C38 (as claimed): a dispute is finalized (resolved, the escrow moved to
\* the issuer or the recipient) only after a resolveDispute call that was
\* counted came from a principal other than the dispute's initiator.
C38_InitiatorCannotFinalizeAlone ==
    \A id \in InvoiceIds :
        disputes[id].resolved =>
            \E v \in voters[id] : v # disputes[id].initiator

(***************************************************************************)
(* Further properties of the multi-sig gate of AgentAllowance.             *)
(***************************************************************************)
\* C39 (as claimed): after a spend that the multi-sig gate applies to
\* (amount >= threshold > 0, some signer) has succeeded, the same spend
\* (allowanceId, recipient, amount, timestamp) made again does not succeed:
\* the approval it used is spent.
C39_ApprovalSpentOnce ==
    \A c \in SpendInputs :
        LET multiSig == multiSigConfigs[allowances[c.allowanceId].agent]
            first    == SpendNow(c)
            second   == spend(first.st, FALSE, c.sender, c.allowanceId, c.recipient,
                              c.amount, now, c.tok)
        IN  (/\ c.amount >= multiSig.threshold
             /\ multiSig.threshold > 0
             /\ Len(multiSig.signers) > 0
             /\ first.err = "") => second.err # ""

(***************************************************************************)
(* The emergency pause of the three contracts.                             *)
(***************************************************************************)
\* C40 (as claimed): no step taken while a contract is paused moves tokens
\* through it or changes what it guards: the spent of an allowance and the
\* tokens moved by spend (AgentAllowance), the escrow balances and the
\* token balances (InvoiceSettlement), the state of a subscription
\* (RecurringPayments).
C40_PausedMovesNothing ==
    [][/\ aPaused =>
            /\ \A id \in AllowanceIds : allowances'[id].spent = allowances[id].spent
            /\ transferred' = transferred
       /\ iPaused =>
            /\ escrowBalances' = escrowBalances
            /\ balances' = balances
       /\ rPaused =>
            \A id \in SubscriptionIds :
                subscriptions'[id].state = subscriptions[id].state]_vars

====
